---- MODULE Spec2Model ----
(***************************************************************************)
(* SentinelDrive voice assistant (VoiceAssistant.py): the shared driver    *)
(* state, the mic gate, the three queues and the worker threads            *)
(* (tts_worker, wake_word_detector, command_processor, alert_monitor) with *)
(* the /alert endpoint and the dashboard's /update_state endpoint.         *)
(*                                                                         *)
(* Every thread is an interleaved process.  An action is a run of          *)
(* statements of one thread; a thread yields where another thread's write  *)
(* decides what it does next: around the mic gate, between building and    *)
(* posting state_data, between the two halves of the history pruning, and  *)
(* across every blocking call (listen, query_ollama, playback, sleep).     *)
(* Recognized speech is a tuple of one-character strings so that lower()   *)
(* and the `in` substring test are computed; texts put on the TTS queue    *)
(* are opaque strings.                                                     *)
(***************************************************************************)
EXTENDS Integers, Sequences, FiniteSets, TLC

VARIABLES
    driver_state,       \* the driver_state dict
    global_mic_active,  \* the mic gate
    speech_queue,       \* commands recognized by the listener
    tts_queue,          \* texts to be spoken
    alert_queue,        \* alerts from the safety suite
    now,                \* the last value time.time() returned
    pc,                 \* position of every thread
    bsnap,              \* state_data that a thread's broadcast_state is posting
    tts_text,           \* tts_worker: text
    cp_cmd,             \* command_processor: command
    cp_enq,             \* command_processor: speak() calls for the current command
    cp_backend,         \* command_processor: query_ollama called for the current command
    am_now,             \* alert_monitor / check_alert_threshold: now (0 once unused)
    am_hist,            \* check_alert_threshold: the filtered list before it is stored
    am_ret,             \* check_alert_threshold: its return value (False once unused)
    wwd_text,           \* wake_word_detector: the last text the recognizer returned
    heard,              \* number of utterances recognized so far
    alerts_in,          \* number of /alert requests received so far
    crash_in,           \* number of "CRASH" put on alert_queue
    crash_spoken,       \* number of collision prompts put on tts_queue
    spoken_at           \* time at which the alert monitor last put a suggestion on
                        \* tts_queue (0: not yet)

vars == <<driver_state, global_mic_active, speech_queue, tts_queue, alert_queue,
          now, pc, bsnap, tts_text, cp_cmd, cp_enq, cp_backend,
          am_now, am_hist, am_ret, wwd_text,
          heard, alerts_in, crash_in, crash_spoken, spoken_at>>

queues == <<speech_queue, tts_queue, alert_queue>>
cpLocals == <<cp_cmd, cp_enq, cp_backend>>
amLocals == <<am_now, am_hist, am_ret>>
locals == <<tts_text, cpLocals, amLocals, wwd_text>>
counters == <<heard, alerts_in, crash_in, crash_spoken, spoken_at>>
bcast == <<bsnap>>

---------------------------------------------------------------------------
(* Configuration *)

CONSECUTIVE_ALERTS_THRESHOLD == 2
ALERT_WINDOW == 300
SUGGESTION_COOLDOWN == 60

WAKE_WORD == <<"g","o","g","i">>

\* Bound of the model: /alert requests received plus utterances recognized
\* while waiting for the wake word.
MaxEvents == 2

\* time.time() when the threads start, and the values it returns later: within
\* the cooldown of the start, and a cooldown after it.
StartTime == 1000
Instants == {StartTime, StartTime + SUGGESTION_COOLDOWN}

Threads == {"tts", "wwd", "cp", "am", "api"}

NoText == "<none>"
NoSnap == [state |-> "<none>"]

---------------------------------------------------------------------------
(* Texts *)

STARTUP_TEXT == "Assistant starting up."
WAKE_PROMPT == "How can I help you?"
NOT_CAUGHT_TEXT == "Sorry, I didn't catch that."
UNAVAILABLE_TEXT == "Speech service is unavailable right now."
CRASH_PROMPT == "I've detected a possible collision. Are you okay? Please respond or I'll call emergency services."
CALM_ACK == "Playing some calming music to help you relax."
STOP_ACK == "Voice assistant deactivated. Say gogi to reactivate."
WEATHER_REPLY == "Currently 36 degrees Celcius in okhla new delhi with sunny skies, expected to hit 40 degrees celcius at peak."
DISTANCE_REPLY == "You are about 20 kilometers far from your destination, estimated time remaining is 45 minutes"
MUSIC_REPLY == "Now playing on spotify"
OLLAMA_GENERATED == "<generated text>"
OLLAMA_STATUS_FALLBACK == "Sorry, I'm having trouble thinking right now."
OLLAMA_EXCEPTION_FALLBACK == "Sorry, I can't access my thinking capabilities at the moment."

\* What query_ollama returns: the generated text, or an apology (the one for a
\* bad status stands for both).
OllamaResults == {OLLAMA_GENERATED, OLLAMA_STATUS_FALLBACK}

AlertMessage(alert_type) ==
    CASE alert_type = "DROWSY" -> "You seem a bit drowsy. Maybe pull over and rest."
      [] alert_type = "DRUNK" -> "You seem impaired. Consider stopping driving."
      [] alert_type = "STRESS" -> "You seem stressed. Take a moment to relax before continuing."

---------------------------------------------------------------------------
(* Strings: str.lower() and the `in` substring test *)

UpperChars == <<"A","B","C","D","E","F","G","H","I","J","K","L","M","N","O","P","Q","R","S","T","U","V","W","X","Y","Z">>
LowerChars == <<"a","b","c","d","e","f","g","h","i","j","k","l","m","n","o","p","q","r","s","t","u","v","w","x","y","z">>

LowerChar(c) ==
    IF \E i \in 1..Len(UpperChars) : UpperChars[i] = c
    THEN LowerChars[CHOOSE i \in 1..Len(UpperChars) : UpperChars[i] = c]
    ELSE c

\* A variant of Lower that leaves the text as it is (a case-sensitive match).
LowerIdentity(s) == s

Lower(s) == [i \in 1..Len(s) |-> LowerChar(s[i])]

\* sub in s
Contains(sub, s) ==
    \E i \in 1..(Len(s) - Len(sub) + 1) : SubSeq(s, i, i + Len(sub) - 1) = sub

U_HeyGogi == <<"H","e","y"," ","G","O","G","I"," ","p","l","e","a","s","e">>
U_Hello == <<"h","e","l","l","o">>
Cmd_Calm == <<"p","l","a","y"," ","s","o","m","e"," ","c","a","l","m"," ","m","u","s","i","c">>
Cmd_Stop == <<"s","t","o","p"," ","l","i","s","t","e","n","i","n","g">>
Cmd_Weather == <<"W","e","a","t","h","e","r"," ","t","o","d","a","y">>
Cmd_Distance == <<"d","i","s","t","a","n","c","e"," ","l","e","f","t">>
Cmd_Music == <<"m","u","s","i","c">>
Cmd_Joke == <<"t","e","l","l"," ","m","e"," ","a"," ","j","o","k","e">>
\* Commands that hold the words of two branches.
Cmd_DistanceWeather == <<"d","i","s","t","a","n","c","e"," ","a","n","d"," ","w","e","a","t","h","e","r">>
Cmd_StopMusic == <<"s","t","o","p"," ","t","h","e"," ","m","u","s","i","c">>

W_play == <<"p","l","a","y">>
W_calm == <<"c","a","l","m">>
W_relaxing == <<"r","e","l","a","x","i","n","g">>
W_music == <<"m","u","s","i","c">>
W_stop == <<"s","t","o","p">>
W_listening == <<"l","i","s","t","e","n","i","n","g">>
W_weather == <<"w","e","a","t","h","e","r">>
W_distance == <<"d","i","s","t","a","n","c","e">>

\* What the recognizer returns while the listener waits for the wake word.
Utterances == {U_HeyGogi, U_Hello}
\* What the recognizer returns for the follow-up command: one command with a
\* canned reply, one for query_ollama.
Commands == {Cmd_Calm, Cmd_Joke}
\* The commands the router is tried on: one per branch, and two that hold the
\* words of two branches.
AllCommands ==
    {Cmd_Calm, Cmd_Stop, Cmd_Weather, Cmd_Distance, Cmd_Music, Cmd_Joke,
     Cmd_DistanceWeather, Cmd_StopMusic}

---------------------------------------------------------------------------
(* time.time() *)

\* time.time() returns t: an instant not before the last one returned.
ClockRead(t) == t >= now /\ now' = t

---------------------------------------------------------------------------
(* check_alert_threshold *)

\* Variants of the two definitions below, each with one condition changed; the
\* properties of check_alert_threshold are checked to tell them from the code.
\* The window test with <= for <.
PruneAlertsInclusive(last_alerts, t) ==
    SelectSeq(last_alerts, LAMBDA e : t - e[1] <= ALERT_WINDOW)

\* The return value without the cooldown test.
ThresholdReturnNoCooldown(recent_alerts, last_suggestion, cooldown, t) ==
    recent_alerts >= CONSECUTIVE_ALERTS_THRESHOLD

\* The return value with > for >= in the count test.
ThresholdReturnStrict(recent_alerts, last_suggestion, cooldown, t) ==
    IF t - last_suggestion < cooldown
    THEN FALSE
    ELSE recent_alerts > CONSECUTIVE_ALERTS_THRESHOLD

\* [(ts, a) for ts, a in last_alerts if now - ts < ALERT_WINDOW]
PruneAlerts(last_alerts, t) ==
    SelectSeq(last_alerts, LAMBDA e : t - e[1] < ALERT_WINDOW)

\* The return value, from the stored list's length and the cooldown.
ThresholdReturn(recent_alerts, last_suggestion, cooldown, t) ==
    IF t - last_suggestion < cooldown
    THEN FALSE
    ELSE recent_alerts >= CONSECUTIVE_ALERTS_THRESHOLD

---------------------------------------------------------------------------
(* set_assistant_state, broadcast_state, update_state, speak *)

\* The thread is at l and not inside a requests.post of broadcast_state.
At(t, l) == pc[t] = l /\ bsnap[t] = NoSnap

Goto(t, l) == pc' = [pc EXCEPT ![t] = l]

\* state_data as broadcast_state builds it from the dict d.
StateData(d) ==
    [state |-> d.assistant_state,
     drowsy |-> d.DROWSY,
     drunk |-> d.DRUNK,
     stress |-> d.STRESS]

\* The dict becomes d and broadcast_state builds state_data from it; the
\* requests.post that follows is BroadcastPost.
Publish(t, d) ==
    /\ driver_state' = d
    /\ bsnap' = [bsnap EXCEPT ![t] = StateData(d)]

\* set_assistant_state(state)
SetAssistantState(t, state) ==
    Publish(t, [driver_state EXCEPT !.assistant_state = state])

\* speak(text): tts_queue.put(text); set_assistant_state("speaking")
Speak(t, text) ==
    /\ tts_queue' = Append(tts_queue, text)
    /\ SetAssistantState(t, "speaking")

\* update_state: the dashboard endpoint stores the posted state_data.
UpdateState(data) ==
    [driver_state EXCEPT !.assistant_state = data.state,
                         !.DROWSY = data.drowsy,
                         !.DRUNK = data.drunk,
                         !.STRESS = data.stress]

\* requests.post reaches update_state, or raises and is logged.
BroadcastPost(t) ==
    /\ bsnap[t] # NoSnap
    /\ \/ driver_state' = UpdateState(bsnap[t])
       \/ UNCHANGED driver_state
    /\ bsnap' = [bsnap EXCEPT ![t] = NoSnap]
    /\ UNCHANGED <<global_mic_active, queues, now, pc, locals, counters>>

---------------------------------------------------------------------------
(* tts_worker *)

\* A variant of TtsDequeue that takes the newest text of tts_queue.
TtsDequeueNewest ==
    /\ At("tts", "idle")
    /\ tts_queue # <<>>
    /\ tts_text' = tts_queue[Len(tts_queue)]
    /\ tts_queue' = SubSeq(tts_queue, 1, Len(tts_queue) - 1)
    /\ Goto("tts", "synth")
    /\ UNCHANGED <<driver_state, global_mic_active, speech_queue, alert_queue,
                   now, bcast, cpLocals, amLocals, wwd_text, counters>>

\* if not tts_queue.empty(): text = tts_queue.get()
TtsDequeue ==
    /\ At("tts", "idle")
    /\ tts_queue # <<>>
    /\ tts_text' = Head(tts_queue)
    /\ tts_queue' = Tail(tts_queue)
    /\ Goto("tts", "synth")
    /\ UNCHANGED <<driver_state, global_mic_active, speech_queue, alert_queue,
                   now, bcast, cpLocals, amLocals, wwd_text, counters>>

\* A variant of TtsMute that leaves global_mic_active as it is.
TtsMuteSkipped ==
    /\ At("tts", "synth")
    /\ Goto("tts", "muted")
    /\ UNCHANGED <<driver_state, global_mic_active, queues, now, bcast, locals,
                   counters>>

\* gTTS(...).save(filename) returned: global_mic_active = False
TtsMute ==
    /\ At("tts", "synth")
    /\ global_mic_active' = FALSE
    /\ Goto("tts", "muted")
    /\ UNCHANGED <<driver_state, queues, now, bcast, locals, counters>>

\* A variant of TtsExcept that leaves global_mic_active as it is.
TtsExceptStaysMuted ==
    /\ SetAssistantState("tts", "standby")
    /\ Goto("tts", "idle")
    /\ tts_text' = NoText
    /\ UNCHANGED <<global_mic_active, queues, now, cpLocals, amLocals, wwd_text,
                   counters>>

\* The except clause: global_mic_active = True; set_assistant_state("standby")
TtsExcept ==
    /\ global_mic_active' = TRUE
    /\ SetAssistantState("tts", "standby")
    /\ Goto("tts", "idle")
    /\ tts_text' = NoText
    /\ UNCHANGED <<queues, now, cpLocals, amLocals, wwd_text, counters>>

\* gTTS(...).save(filename) raised
TtsSynthFail ==
    /\ At("tts", "synth")
    /\ TtsExcept

\* set_assistant_state("speaking"), then pygame.mixer.music.load and play
TtsSetSpeaking ==
    /\ At("tts", "muted")
    /\ SetAssistantState("tts", "speaking")
    /\ Goto("tts", "playing")
    /\ UNCHANGED <<global_mic_active, queues, now, locals, counters>>

\* pygame.mixer.music.load or play raised
TtsPlayFail ==
    /\ At("tts", "playing")
    /\ TtsExcept

\* get_busy() is false: global_mic_active = True
TtsUnmute ==
    /\ At("tts", "playing")
    /\ global_mic_active' = TRUE
    /\ Goto("tts", "unmuted")
    /\ UNCHANGED <<driver_state, queues, now, bcast, locals, counters>>

\* set_assistant_state("standby"); os.remove(filename); back to the loop
TtsSetStandby ==
    /\ At("tts", "unmuted")
    /\ SetAssistantState("tts", "standby")
    /\ Goto("tts", "idle")
    /\ tts_text' = NoText
    /\ UNCHANGED <<global_mic_active, queues, now,
                   cpLocals, amLocals, wwd_text, counters>>

tts_worker ==
    \/ TtsDequeue \/ TtsMute \/ TtsSynthFail \/ TtsSetSpeaking \/ TtsPlayFail
    \/ TtsUnmute \/ TtsSetStandby

\* Audio is playing: between play() and the end of the get_busy() loop.
TtsPlaying == At("tts", "playing")

---------------------------------------------------------------------------
(* wake_word_detector *)

\* if not global_mic_active: sleep, continue; else enter recognizer.listen
WwdGate ==
    /\ At("wwd", "idle")
    /\ global_mic_active
    /\ Goto("wwd", "listen")
    /\ UNCHANGED <<driver_state, global_mic_active, queues, now, bcast, locals, counters>>

\* WaitTimeoutError, UnknownValueError or another exception: back to the loop
WwdListenFail ==
    /\ At("wwd", "listen")
    /\ Goto("wwd", "idle")
    /\ UNCHANGED <<driver_state, global_mic_active, queues, now, bcast, locals, counters>>

\* text = recognize_google(audio).lower(); if WAKE_WORD in text:
\* global_mic_active = False; conversation_active = True;
\* set_assistant_state("listening")
WwdHear(u) ==
    /\ At("wwd", "listen")
    /\ alerts_in + heard < MaxEvents
    /\ heard' = heard + 1
    /\ wwd_text' = u
    /\ IF Contains(WAKE_WORD, Lower(u))
       THEN /\ global_mic_active' = FALSE
            /\ Publish("wwd", [driver_state EXCEPT !.conversation_active = TRUE,
                                                   !.assistant_state = "listening"])
            /\ Goto("wwd", "wake_speak")
       ELSE /\ Goto("wwd", "idle")
            /\ UNCHANGED <<global_mic_active, driver_state, bsnap>>
    /\ UNCHANGED <<queues, now, tts_text, cpLocals, amLocals,
                   alerts_in, crash_in, crash_spoken, spoken_at>>

\* A variant of WwdPrompt in which the listener sets global_mic_active to True
\* itself after its speak().
WwdPromptUnmutes ==
    /\ At("wwd", "wake_speak")
    /\ Speak("wwd", WAKE_PROMPT)
    /\ global_mic_active' = TRUE
    /\ Goto("wwd", "await")
    /\ UNCHANGED <<speech_queue, alert_queue, now, locals, counters>>

\* speak("How can I help you?")
WwdPrompt ==
    /\ At("wwd", "wake_speak")
    /\ Speak("wwd", WAKE_PROMPT)
    /\ Goto("wwd", "await")
    /\ UNCHANGED <<global_mic_active, speech_queue, alert_queue, now, locals, counters>>

\* while not global_mic_active: sleep; then set_assistant_state("listening")
\* and recognizer.listen for the command
WwdRearm ==
    /\ At("wwd", "await")
    /\ global_mic_active
    /\ SetAssistantState("wwd", "listening")
    /\ Goto("wwd", "capture")
    /\ UNCHANGED <<global_mic_active, queues, now, locals, counters>>

\* listen raised WaitTimeoutError (or anything else): the outer except clauses
WwdCaptureTimeout ==
    /\ At("wwd", "capture")
    /\ Goto("wwd", "idle")
    /\ UNCHANGED <<driver_state, global_mic_active, queues, now, bcast, locals, counters>>

\* command = recognize_google(cmd_audio).lower(); speech_queue.put(command)
WwdCaptureCommand(c) ==
    /\ At("wwd", "capture")
    /\ speech_queue' = Append(speech_queue, Lower(c))
    /\ Goto("wwd", "idle")
    /\ UNCHANGED <<driver_state, global_mic_active, tts_queue, alert_queue,
                   now, bcast, locals, counters>>

\* A variant of WwdCaptureUnknown that also hands the failed capture to the router.
WwdCaptureUnknownQueued ==
    /\ At("wwd", "capture")
    /\ Speak("wwd", NOT_CAUGHT_TEXT)
    /\ speech_queue' = Append(speech_queue, <<>>)
    /\ Goto("wwd", "idle")
    /\ UNCHANGED <<global_mic_active, alert_queue, now, locals, counters>>

\* except sr.UnknownValueError: speak("Sorry, I didn't catch that.")
WwdCaptureUnknown ==
    /\ At("wwd", "capture")
    /\ Speak("wwd", NOT_CAUGHT_TEXT)
    /\ Goto("wwd", "idle")
    /\ UNCHANGED <<global_mic_active, speech_queue, alert_queue, now, locals, counters>>

\* except sr.RequestError: speak("Speech service is unavailable right now.")
WwdCaptureUnavailable ==
    /\ At("wwd", "capture")
    /\ Speak("wwd", UNAVAILABLE_TEXT)
    /\ Goto("wwd", "idle")
    /\ UNCHANGED <<global_mic_active, speech_queue, alert_queue, now, locals, counters>>

wake_word_detector ==
    \/ WwdGate \/ WwdListenFail
    \/ \E u \in Utterances : WwdHear(u)
    \/ WwdPrompt \/ WwdRearm \/ WwdCaptureTimeout
    \/ \E c \in Commands : WwdCaptureCommand(c)
    \/ WwdCaptureUnknown \/ WwdCaptureUnavailable

---------------------------------------------------------------------------
(* command_processor *)

\* A variant of Intent that tries "music" before the other words.
IntentMusicFirst(command) ==
    IF Contains(W_music, command) THEN "music"
    ELSE IF Contains(W_play, command)
            /\ (Contains(W_calm, command) \/ Contains(W_relaxing, command))
    THEN "calm"
    ELSE IF Contains(W_stop, command) /\ Contains(W_listening, command) THEN "stop"
    ELSE IF Contains(W_weather, command) THEN "weather"
    ELSE IF Contains(W_distance, command) THEN "distance"
    ELSE "ollama"

\* The branch of the if/elif chain that the command takes.
Intent(command) ==
    IF Contains(W_play, command)
       /\ (Contains(W_calm, command) \/ Contains(W_relaxing, command)
           \/ Contains(W_music, command))
    THEN "calm"
    ELSE IF Contains(W_stop, command) /\ Contains(W_listening, command) THEN "stop"
    ELSE IF Contains(W_weather, command) THEN "weather"
    ELSE IF Contains(W_distance, command) THEN "distance"
    ELSE IF Contains(W_music, command) THEN "music"
    ELSE "ollama"

\* A variant of Replies in which the "music" branch says nothing.
RepliesSilentMusic(intent, response) ==
    CASE intent = "calm" -> <<CALM_ACK>>
      [] intent = "stop" -> <<STOP_ACK>>
      [] intent = "weather" -> <<WEATHER_REPLY>>
      [] intent = "distance" -> <<DISTANCE_REPLY>>
      [] intent = "music" -> <<>>
      [] intent = "ollama" -> <<response>>

\* The texts the branch passes to speak(); response is what query_ollama returned.
Replies(intent, response) ==
    CASE intent = "calm" -> <<CALM_ACK>>
      [] intent = "stop" -> <<STOP_ACK>>
      [] intent = "weather" -> <<WEATHER_REPLY>>
      [] intent = "distance" -> <<DISTANCE_REPLY>>
      [] intent = "music" -> <<MUSIC_REPLY>>
      [] intent = "ollama" -> <<response>>

\* if not speech_queue.empty(): command = speech_queue.get()
CpDequeue ==
    /\ At("cp", "idle")
    /\ speech_queue # <<>>
    /\ cp_cmd' = Head(speech_queue)
    /\ speech_queue' = Tail(speech_queue)
    /\ cp_enq' = 0
    /\ cp_backend' = FALSE
    /\ Goto("cp", "route")
    /\ UNCHANGED <<driver_state, global_mic_active, tts_queue, alert_queue,
                   now, bcast, tts_text, amLocals, wwd_text, counters>>

\* the if/elif chain: the branch's query_ollama and speak()
CpRoute ==
    /\ At("cp", "route")
    /\ \E response \in OllamaResults :
         LET texts == Replies(Intent(cp_cmd), response) IN
           /\ tts_queue' = tts_queue \o texts
           /\ cp_enq' = cp_enq + Len(texts)
           /\ IF texts # <<>>
              THEN SetAssistantState("cp", "speaking")
              ELSE UNCHANGED <<driver_state, bsnap>>
    /\ cp_backend' = (Intent(cp_cmd) = "ollama")
    /\ Goto("cp", "clear")
    /\ UNCHANGED <<global_mic_active, speech_queue, alert_queue,
                   now, tts_text, cp_cmd, amLocals, wwd_text, counters>>

\* A variant of CpClear that clears conversation_active only in the branches
\* with a canned reply.
CpClearCannedOnly ==
    /\ At("cp", "clear")
    /\ driver_state' = [driver_state EXCEPT
                          !.conversation_active = IF cp_backend THEN @ ELSE FALSE]
    /\ Goto("cp", "idle")
    /\ cp_cmd' = <<>>
    /\ cp_enq' = 0
    /\ cp_backend' = FALSE
    /\ UNCHANGED <<global_mic_active, queues, now, bcast, tts_text, amLocals,
                   wwd_text, counters>>

\* driver_state["conversation_active"] = False (twice in the stop branch)
CpClear ==
    /\ At("cp", "clear")
    /\ driver_state' = [driver_state EXCEPT !.conversation_active = FALSE]
    /\ Goto("cp", "idle")
    /\ cp_cmd' = <<>>
    /\ cp_enq' = 0
    /\ cp_backend' = FALSE
    /\ UNCHANGED <<global_mic_active, queues, now, bcast, tts_text, amLocals,
                   wwd_text, counters>>

command_processor ==
    \/ CpDequeue \/ CpRoute \/ CpClear

---------------------------------------------------------------------------
(* alert_monitor *)

\* get_driver_assistance_prompt() returns None: no flag is set
NoPrompt ==
    ~driver_state.DROWSY /\ ~driver_state.DRUNK /\ ~driver_state.STRESS

\* A variant of AmLoop in which the conversation_active test comes before the
\* "CRASH" test.
AmLoopSuppressCrash ==
    /\ At("am", "idle")
    /\ IF alert_queue # <<>>
       THEN /\ alert_queue' = Tail(alert_queue)
            /\ IF Head(alert_queue) = "CRASH" /\ ~driver_state.conversation_active
               THEN /\ Speak("am", CRASH_PROMPT)
                    /\ crash_spoken' = crash_spoken + 1
                    /\ Goto("am", "idle")
               ELSE /\ Goto("am", IF driver_state.conversation_active
                                  THEN "idle" ELSE "threshold")
                    /\ UNCHANGED <<tts_queue, driver_state, bsnap, crash_spoken>>
       ELSE /\ Goto("am", "sleep")
            /\ UNCHANGED <<alert_queue, tts_queue, driver_state, bsnap,
                           crash_spoken>>
    /\ UNCHANGED <<global_mic_active, speech_queue, now, tts_text, cpLocals,
                   amLocals, wwd_text, heard, alerts_in, crash_in, spoken_at>>

\* A variant of AmLoop without the conversation_active test.
AmLoopIgnoresConversation ==
    /\ At("am", "idle")
    /\ IF alert_queue # <<>>
       THEN /\ alert_queue' = Tail(alert_queue)
            /\ IF Head(alert_queue) = "CRASH"
               THEN /\ Speak("am", CRASH_PROMPT)
                    /\ crash_spoken' = crash_spoken + 1
                    /\ Goto("am", "idle")
               ELSE /\ Goto("am", "threshold")
                    /\ UNCHANGED <<tts_queue, driver_state, bsnap, crash_spoken>>
       ELSE /\ Goto("am", "sleep")
            /\ UNCHANGED <<alert_queue, tts_queue, driver_state, bsnap,
                           crash_spoken>>
    /\ UNCHANGED <<global_mic_active, speech_queue, now, tts_text, cpLocals,
                   amLocals, wwd_text, heard, alerts_in, crash_in, spoken_at>>

\* top of the loop: alert = alert_queue.get(); "CRASH" is spoken at once, any
\* other alert is dropped while conversation_active; an empty queue leads to
\* time.sleep(5)
AmLoop ==
    /\ At("am", "idle")
    /\ IF alert_queue # <<>>
       THEN /\ alert_queue' = Tail(alert_queue)
            /\ IF Head(alert_queue) = "CRASH"
               THEN /\ Speak("am", CRASH_PROMPT)
                    /\ crash_spoken' = crash_spoken + 1
                    /\ Goto("am", "idle")
               ELSE /\ Goto("am", IF driver_state.conversation_active
                                  THEN "idle" ELSE "threshold")
                    /\ UNCHANGED <<tts_queue, driver_state, bsnap, crash_spoken>>
       ELSE /\ Goto("am", "sleep")
            /\ UNCHANGED <<alert_queue, tts_queue, driver_state, bsnap,
                           crash_spoken>>
    /\ UNCHANGED <<global_mic_active, speech_queue, now, tts_text, cpLocals,
                   amLocals, wwd_text, heard, alerts_in, crash_in, spoken_at>>

\* check_alert_threshold: now = time.time(), which returns t, and the list
\* comprehension
ThresholdRead(t) ==
    /\ At("am", "threshold")
    /\ ClockRead(t)
    /\ am_now' = t
    /\ am_hist' = PruneAlerts(driver_state.last_alerts, t)
    /\ Goto("am", "threshold_store")
    /\ UNCHANGED <<driver_state, global_mic_active, queues, bcast,
                   tts_text, cpLocals, am_ret, wwd_text, counters>>

AmThresholdRead == \E t \in Instants : ThresholdRead(t)

\* A variant of AmThresholdStore without the test of the prompt.
AmThresholdStoreAnyPrompt ==
    /\ At("am", "threshold_store")
    /\ driver_state' = [driver_state EXCEPT !.last_alerts = am_hist]
    /\ LET ret == ThresholdReturn(Len(am_hist), driver_state.last_suggestion,
                                  driver_state.suggestion_cooldown, am_now)
       IN /\ am_ret' = ret
          /\ Goto("am", IF ret THEN "suggest" ELSE "sleep")
    /\ am_hist' = <<>>
    /\ am_now' = 0
    /\ UNCHANGED <<global_mic_active, queues, now, bcast, tts_text, cpLocals,
                   wwd_text, counters>>

\* check_alert_threshold: the list is stored, its length and the cooldown
\* decide; on True, get_driver_assistance_prompt() and query_ollama(prompt)
AmThresholdStore ==
    /\ At("am", "threshold_store")
    /\ driver_state' = [driver_state EXCEPT !.last_alerts = am_hist]
    /\ LET ret == ThresholdReturn(Len(am_hist), driver_state.last_suggestion,
                                  driver_state.suggestion_cooldown, am_now)
       IN /\ am_ret' = ret
          /\ Goto("am", IF ret /\ ~NoPrompt THEN "suggest" ELSE "sleep")
    /\ am_hist' = <<>>
    /\ am_now' = 0
    /\ UNCHANGED <<global_mic_active, queues, now, bcast, tts_text, cpLocals,
                   wwd_text, counters>>

\* speak(suggestion); driver_state["last_suggestion"] = time.time()
AmSuggest ==
    /\ At("am", "suggest")
    /\ \E suggestion \in OllamaResults :
         tts_queue' = Append(tts_queue, suggestion)
    /\ \E t \in Instants :
         /\ ClockRead(t)
         /\ Publish("am", [driver_state EXCEPT !.assistant_state = "speaking",
                                               !.last_suggestion = t])
    /\ spoken_at' = now
    /\ Goto("am", "sleep")
    /\ am_ret' = FALSE
    /\ UNCHANGED <<global_mic_active, speech_queue, alert_queue, tts_text,
                   cpLocals, am_now, am_hist, wwd_text,
                   heard, alerts_in, crash_in, crash_spoken>>

\* The sweep speaks: monitoring on, some condition true, cooldown over, a prompt.
SweepSpeaks(t) ==
    /\ driver_state.continuous_monitoring
    /\ \/ driver_state.DROWSY \/ driver_state.DRUNK \/ driver_state.STRESS
       \/ driver_state.crash_detected \/ driver_state.conversation_active
    /\ t - driver_state.last_suggestion >= driver_state.suggestion_cooldown
    /\ ~NoPrompt

\* time.sleep(5) returns: the periodic part of the loop, up to query_ollama(prompt)
AmSweep ==
    /\ At("am", "sleep")
    /\ \E t \in Instants :
         /\ ClockRead(t)
         /\ am_now' = IF SweepSpeaks(t) THEN t ELSE 0
         /\ Goto("am", IF SweepSpeaks(t) THEN "sweep_suggest" ELSE "idle")
    /\ am_ret' = FALSE
    /\ UNCHANGED <<driver_state, global_mic_active, queues, bcast,
                   tts_text, cpLocals, am_hist, wwd_text, counters>>

\* the sweep's speak(suggestion); driver_state["last_suggestion"] = now
AmSweepSuggest ==
    /\ At("am", "sweep_suggest")
    /\ \E suggestion \in OllamaResults :
         tts_queue' = Append(tts_queue, suggestion)
    /\ Publish("am", [driver_state EXCEPT !.assistant_state = "speaking",
                                          !.last_suggestion = am_now])
    /\ spoken_at' = now
    /\ Goto("am", "idle")
    /\ am_now' = 0
    /\ UNCHANGED <<global_mic_active, speech_queue, alert_queue, now, tts_text,
                   cpLocals, am_hist, am_ret, wwd_text,
                   heard, alerts_in, crash_in, crash_spoken>>

alert_monitor ==
    \/ AmLoop \/ AmThresholdRead \/ AmThresholdStore \/ AmSuggest
    \/ AmSweep \/ AmSweepSuggest

---------------------------------------------------------------------------
(* receive_alert *)

Directions == {"LEFT"}

\* The JSON bodies posted to /alert.
Requests ==
    [type : {"DROWSY"}, state : BOOLEAN]
    \cup [type : {"STEER"}, direction : Directions]
    \cup [type : {"CRASH"}]

\* A variant of ApiReceive that also puts a "STEER" alert on alert_queue.
ApiReceiveSteerQueued(req) ==
    /\ At("api", "idle")
    /\ alerts_in + heard < MaxEvents
    /\ alerts_in' = alerts_in + 1
    /\ CASE req.type \in {"DROWSY", "DRUNK", "STRESS"} ->
              IF req.state
              THEN /\ alert_queue' = Append(alert_queue, req.type)
                   /\ tts_queue' = Append(tts_queue, AlertMessage(req.type))
                   /\ \E t \in Instants :
                        /\ ClockRead(t)
                        /\ Publish("api",
                             [driver_state EXCEPT
                                ![req.type] = TRUE,
                                !.last_alerts = Append(@, <<t, req.type>>),
                                !.assistant_state = "speaking"])
                   /\ UNCHANGED crash_in
              ELSE /\ driver_state' = [driver_state EXCEPT ![req.type] = FALSE]
                   /\ UNCHANGED <<alert_queue, tts_queue, bsnap, crash_in, now>>
         [] req.type = "STEER" ->
              /\ driver_state' = [driver_state EXCEPT !.STEER = req.direction]
              /\ alert_queue' = Append(alert_queue, "STEER")
              /\ UNCHANGED <<tts_queue, bsnap, crash_in, now>>
         [] req.type = "CRASH" ->
              /\ driver_state' = [driver_state EXCEPT !.crash_detected = TRUE]
              /\ alert_queue' = Append(alert_queue, "CRASH")
              /\ crash_in' = crash_in + 1
              /\ UNCHANGED <<tts_queue, bsnap, now>>
    /\ UNCHANGED <<global_mic_active, speech_queue, pc, locals,
                   heard, crash_spoken, spoken_at>>

\* One request, handled to the end of the handler's last statement; the
\* requests.post of its speak() is BroadcastPost.
ApiReceive(req) ==
    /\ At("api", "idle")
    /\ alerts_in + heard < MaxEvents
    /\ alerts_in' = alerts_in + 1
    /\ CASE req.type \in {"DROWSY", "DRUNK", "STRESS"} ->
              IF req.state
              THEN /\ alert_queue' = Append(alert_queue, req.type)
                   /\ tts_queue' = Append(tts_queue, AlertMessage(req.type))
                   /\ \E t \in Instants :
                        /\ ClockRead(t)
                        /\ Publish("api",
                             [driver_state EXCEPT
                                ![req.type] = TRUE,
                                !.last_alerts = Append(@, <<t, req.type>>),
                                !.assistant_state = "speaking"])
                   /\ UNCHANGED crash_in
              ELSE /\ driver_state' = [driver_state EXCEPT ![req.type] = FALSE]
                   /\ UNCHANGED <<alert_queue, tts_queue, bsnap, crash_in, now>>
         [] req.type = "STEER" ->
              /\ driver_state' = [driver_state EXCEPT !.STEER = req.direction]
              /\ UNCHANGED <<alert_queue, tts_queue, bsnap, crash_in, now>>
         [] req.type = "CRASH" ->
              /\ driver_state' = [driver_state EXCEPT !.crash_detected = TRUE]
              /\ alert_queue' = Append(alert_queue, "CRASH")
              /\ crash_in' = crash_in + 1
              /\ UNCHANGED <<tts_queue, bsnap, now>>
    /\ UNCHANGED <<global_mic_active, speech_queue, pc, locals,
                   heard, crash_spoken, spoken_at>>

receive_alert == \E req \in Requests : ApiReceive(req)

---------------------------------------------------------------------------
(* The broadcasts and the system *)

broadcast_state == \E t \in Threads : BroadcastPost(t)

\* main(): speak("Assistant starting up.") before the threads start; the
\* dashboard is not up yet, so that broadcast is only logged.
Init ==
    /\ driver_state =
         [DROWSY |-> FALSE, DRUNK |-> FALSE, STRESS |-> FALSE, STEER |-> "STRAIGHT",
          last_alerts |-> <<>>, continuous_monitoring |-> TRUE,
          last_suggestion |-> 0, suggestion_cooldown |-> SUGGESTION_COOLDOWN,
          conversation_active |-> FALSE, crash_detected |-> FALSE,
          assistant_state |-> "speaking"]
    /\ global_mic_active = TRUE
    /\ speech_queue = <<>>
    /\ tts_queue = <<STARTUP_TEXT>>
    /\ alert_queue = <<>>
    /\ now = StartTime
    /\ pc = [t \in Threads |-> "idle"]
    /\ bsnap = [t \in Threads |-> NoSnap]
    /\ tts_text = NoText
    /\ cp_cmd = <<>>
    /\ cp_enq = 0
    /\ cp_backend = FALSE
    /\ am_now = 0
    /\ am_hist = <<>>
    /\ am_ret = FALSE
    /\ wwd_text = <<>>
    /\ heard = 0
    /\ alerts_in = 0
    /\ crash_in = 0
    /\ crash_spoken = 0
    /\ spoken_at = 0

Next ==
    \/ tts_worker
    \/ wake_word_detector
    \/ command_processor
    \/ alert_monitor
    \/ receive_alert
    \/ broadcast_state

Spec == Init /\ [][Next]_vars

---------------------------------------------------------------------------
(* The microphone gate and the assistant state *)

\* The TTS worker holds an item: from tts_queue.get() to the end of the busy loop
\* on pygame.mixer.music (or the except clause).
TtsHoldsItem == pc["tts"] \in {"synth", "muted", "playing"}

\* C1: from the moment the TTS worker dequeues a text until its playback completes
\* or fails, assistant_state is "speaking" and global_mic_active is False at every
\* instant, under any interleaving with the other threads.
C1_MicGateInterval ==
    TtsHoldsItem
    => (driver_state.assistant_state = "speaking" /\ ~global_mic_active)

\* C2: in every reachable state, assistant_state = "speaking" implies that
\* global_mic_active is False, across every speak() and every step of the TTS
\* worker.
C2_SpeakingImpliesMuted ==
    driver_state.assistant_state = "speaking" => ~global_mic_active

\* C3: in every reachable state, assistant_state = "listening" implies that
\* global_mic_active is True and that the TTS worker is not playing audio.
C3_ListeningImpliesActive ==
    driver_state.assistant_state = "listening"
    => (global_mic_active /\ pc["tts"] # "playing")

---------------------------------------------------------------------------
(* The CRASH alert *)

\* The alert histories a CRASH alert is tried with: none, and two alerts that
\* have set the DROWSY flag.
CrashHistories == {<<>>, <<<<StartTime, "DROWSY">>, <<StartTime, "DROWSY">>>>}

\* The start-up text has been spoken; a conversation is open or not, alerts have
\* arrived or not, and a suggestion has just been made (the cooldown runs) or
\* none ever.
CrashInit ==
    /\ \E h \in CrashHistories, conv \in BOOLEAN :
       \E last \in {0} \cup (IF h = <<>> THEN {} ELSE {StartTime}) :
         driver_state =
           [DROWSY |-> (h # <<>>), DRUNK |-> FALSE, STRESS |-> FALSE,
            STEER |-> "STRAIGHT", last_alerts |-> h, continuous_monitoring |-> TRUE,
            last_suggestion |-> last, suggestion_cooldown |-> SUGGESTION_COOLDOWN,
            conversation_active |-> conv, crash_detected |-> FALSE,
            assistant_state |-> "standby"]
    /\ global_mic_active = TRUE
    /\ speech_queue = <<>>
    /\ tts_queue = <<>>
    /\ alert_queue = <<>>
    /\ now = StartTime
    /\ pc = [t \in Threads |-> "idle"]
    /\ bsnap = [t \in Threads |-> NoSnap]
    /\ tts_text = NoText
    /\ cp_cmd = <<>>
    /\ cp_enq = 0
    /\ cp_backend = FALSE
    /\ am_now = 0
    /\ am_hist = <<>>
    /\ am_ret = FALSE
    /\ wwd_text = <<>>
    /\ heard = 0
    /\ alerts_in = 0
    /\ crash_in = 0
    /\ crash_spoken = 0
    /\ spoken_at = 0

\* /alert, the alert monitor and the TTS worker; conversation_active stays as
\* CrashInit chose it.
CrashNext ==
    \/ receive_alert
    \/ alert_monitor
    \/ tts_worker
    \/ \E t \in {"api", "am", "tts"} : BroadcastPost(t)

\* The alert monitor's thread is scheduled again and again, and the
\* requests.post of its broadcasts returns.
CrashSpec ==
    /\ CrashInit
    /\ [][CrashNext]_vars
    /\ WF_vars(alert_monitor)
    /\ WF_vars(BroadcastPost("am"))

\* C4: every "CRASH" alert that /alert has put on alert_queue is eventually
\* answered by the alert monitor with the collision prompt on tts_queue, whatever
\* conversation_active, last_suggestion and last_alerts are: the n-th CRASH
\* received leads to the n-th collision prompt.
C4_CrashOverride ==
    \A n \in 1..MaxEvents : (crash_in >= n) ~> (crash_spoken >= n)

\* C4 witness: the collision prompt is on tts_queue during a conversation, while
\* the cooldown runs and the history holds alerts.
C4_Witness ==
    /\ crash_in >= 1
    /\ crash_spoken = crash_in
    /\ driver_state.conversation_active
    /\ now - driver_state.last_suggestion < driver_state.suggestion_cooldown
    /\ Len(driver_state.last_alerts) >= CONSECUTIVE_ALERTS_THRESHOLD
    /\ \E i \in 1..Len(tts_queue) : tts_queue[i] = CRASH_PROMPT

---------------------------------------------------------------------------
(* check_alert_threshold on its own: one call from every sampled input *)

\* Bound: the length of the sampled alert histories.
MaxHist == 3

\* Timestamps of the sampled alerts, the times of the call (around the cooldown
\* and around the window after those timestamps) and the last suggestion.
SampleAlertTimes == {0, 10, 15}
SampleNow == {15, 64, 65, 299, 300, 309, 310, 315}
SampleLastSuggestion == {-9999, 0, 5, 15}

SampleHistories ==
    {h \in UNION {[1..n -> SampleAlertTimes \X {"DROWSY"}] : n \in 0..MaxHist} :
        \A i \in 1..(Len(h) - 1) : h[i][1] <= h[i + 1][1]}

\* The alert monitor is about to call check_alert_threshold.
ThresholdInit ==
    /\ \E h \in SampleHistories, last \in SampleLastSuggestion, flag \in BOOLEAN :
         driver_state =
           [DROWSY |-> flag, DRUNK |-> FALSE, STRESS |-> FALSE, STEER |-> "STRAIGHT",
            last_alerts |-> h, continuous_monitoring |-> TRUE,
            last_suggestion |-> last, suggestion_cooldown |-> SUGGESTION_COOLDOWN,
            conversation_active |-> FALSE, crash_detected |-> FALSE,
            assistant_state |-> "standby"]
    /\ now \in SampleNow
    /\ \A i \in 1..Len(driver_state.last_alerts) : driver_state.last_alerts[i][1] <= now
    /\ driver_state.last_suggestion <= now
    /\ global_mic_active = TRUE
    /\ speech_queue = <<>>
    /\ tts_queue = <<>>
    /\ alert_queue = <<>>
    /\ pc = [t \in Threads |-> IF t = "am" THEN "threshold" ELSE "idle"]
    /\ bsnap = [t \in Threads |-> NoSnap]
    /\ tts_text = NoText
    /\ cp_cmd = <<>>
    /\ cp_enq = 0
    /\ cp_backend = FALSE
    /\ am_now = 0
    /\ am_hist = <<>>
    /\ am_ret = FALSE
    /\ wwd_text = <<>>
    /\ heard = 0
    /\ alerts_in = 0
    /\ crash_in = 0
    /\ crash_spoken = 0
    /\ spoken_at = 0

ThresholdNext ==
    \/ ThresholdRead(now)
    \/ AmThresholdStore

ThresholdSpec == ThresholdInit /\ [][ThresholdNext]_vars

\* check_alert_threshold has returned (under ThresholdSpec).
ThresholdReturned == pc["am"] \in {"suggest", "sleep"}

\* The number of entries of history h that are younger than the window at t.
InWindow(h, t) == Cardinality({i \in 1..Len(h) : t - h[i][1] < ALERT_WINDOW})

\* C5: whenever now - last_suggestion < suggestion_cooldown, check_alert_threshold
\* returns False, however many entries the history holds.
C5_CooldownDominates ==
    (ThresholdReturned
       /\ now - driver_state.last_suggestion < driver_state.suggestion_cooldown)
    => am_ret = FALSE

\* C5 witness: a call during the cooldown with at least CONSECUTIVE_ALERTS_THRESHOLD
\* entries inside the window has returned False.
C5_Witness ==
    /\ ThresholdReturned
    /\ now - driver_state.last_suggestion < driver_state.suggestion_cooldown
    /\ Len(driver_state.last_alerts) >= CONSECUTIVE_ALERTS_THRESHOLD
    /\ am_ret = FALSE

\* C6: the list comprehension keeps exactly the entries with now - ts < ALERT_WINDOW,
\* in order; an entry at exactly now - ALERT_WINDOW, or older, is dropped, and the
\* stored list is the filtered one.
C6_PruneExact ==
    [][(pc["am"] = "threshold" /\ pc'["am"] = "threshold_store"
          => LET h == driver_state.last_alerts
                 kept == {i \in 1..Len(h) : now' - h[i][1] < ALERT_WINDOW}
             IN /\ Len(am_hist') = Cardinality(kept)
                /\ \A j \in 1..Len(am_hist') : now' - am_hist'[j][1] < ALERT_WINDOW
                /\ \A j \in 1..Len(am_hist') : am_hist'[j][1] # now' - ALERT_WINDOW
                /\ \A i \in kept :
                     am_hist'[Cardinality({k \in kept : k <= i})] = h[i])
       /\ (pc["am"] = "threshold_store" /\ pc'["am"] # "threshold_store"
             => driver_state'.last_alerts = am_hist)]_vars

\* C6 witness: a call at exactly ALERT_WINDOW after an entry has dropped that entry
\* and kept a younger one.
C6_Witness ==
    /\ ThresholdReturned
    /\ now = 310
    /\ driver_state.last_alerts = <<<<15, "DROWSY">>>>

\* C7: check_alert_threshold returns True exactly when the cooldown is over and at
\* least CONSECUTIVE_ALERTS_THRESHOLD entries are younger than ALERT_WINDOW; with
\* entries at 0 and 10 and now = 15 it returns True for last_suggestion = -9999 and
\* False for last_suggestion = 5.
C7_ThresholdExact ==
    [][pc["am"] = "threshold_store" /\ pc'["am"] # "threshold_store"
         => /\ am_ret' =
                 (/\ am_now - driver_state.last_suggestion >= SUGGESTION_COOLDOWN
                  /\ InWindow(driver_state.last_alerts, am_now)
                       >= CONSECUTIVE_ALERTS_THRESHOLD)
            /\ (/\ driver_state.last_alerts = <<<<0, "DROWSY">>, <<10, "DROWSY">>>>
                /\ am_now = 15
                /\ driver_state.last_suggestion = -9999) => am_ret' = TRUE
            /\ (/\ driver_state.last_alerts = <<<<0, "DROWSY">>, <<10, "DROWSY">>>>
                /\ am_now = 15
                /\ driver_state.last_suggestion = 5) => am_ret' = FALSE]_vars

\* C7 witness: the scenario with last_suggestion = -9999 has returned True.
C7_Witness ==
    /\ ThresholdReturned
    /\ driver_state.last_alerts = <<<<0, "DROWSY">>, <<10, "DROWSY">>>>
    /\ now = 15
    /\ driver_state.last_suggestion = -9999
    /\ am_ret = TRUE

---------------------------------------------------------------------------
(* command_processor on its own: the commands of every branch *)

\* Bound: the number of commands waiting on speech_queue.
MaxQueued == 2

\* The listener has put commands on speech_queue; the start-up text has been spoken.
RouterInit ==
    /\ driver_state =
         [DROWSY |-> FALSE, DRUNK |-> FALSE, STRESS |-> FALSE, STEER |-> "STRAIGHT",
          last_alerts |-> <<>>, continuous_monitoring |-> TRUE,
          last_suggestion |-> 0, suggestion_cooldown |-> SUGGESTION_COOLDOWN,
          conversation_active |-> TRUE, crash_detected |-> FALSE,
          assistant_state |-> "listening"]
    /\ global_mic_active = TRUE
    /\ speech_queue \in
         UNION {[1..n -> {Lower(c) : c \in AllCommands}] : n \in 1..MaxQueued}
    /\ tts_queue = <<>>
    /\ alert_queue = <<>>
    /\ now = StartTime
    /\ pc = [t \in Threads |-> "idle"]
    /\ bsnap = [t \in Threads |-> NoSnap]
    /\ tts_text = NoText
    /\ cp_cmd = <<>>
    /\ cp_enq = 0
    /\ cp_backend = FALSE
    /\ am_now = 0
    /\ am_hist = <<>>
    /\ am_ret = FALSE
    /\ wwd_text = <<>>
    /\ heard = 0
    /\ alerts_in = 0
    /\ crash_in = 0
    /\ crash_spoken = 0
    /\ spoken_at = 0

RouterNext ==
    \/ command_processor
    \/ tts_worker
    \/ BroadcastPost("cp")
    \/ BroadcastPost("tts")

RouterSpec == RouterInit /\ [][RouterNext]_vars

\* The texts the router can speak: the canned replies and what query_ollama returns.
RouterTexts ==
    {CALM_ACK, STOP_ACK, WEATHER_REPLY, DISTANCE_REPLY, MUSIC_REPLY} \cup OllamaResults

\* C8: for every command taken from speech_queue the router puts exactly one text
\* on tts_queue (a canned reply, the generated text or the apology of a failed
\* query) before it takes the next command: the branch appends one text, and
\* the rest of the iteration appends none.
C8_RoutingTotal ==
    [][/\ (pc["cp"] = "route" /\ pc'["cp"] # "route")
            => \E text \in RouterTexts : tts_queue' = Append(tts_queue, text)
       /\ (pc["cp"] # "route" /\ pc'["cp"] # pc["cp"])
            => tts_queue' = tts_queue
       /\ (pc["cp"] = "clear" /\ pc'["cp"] = "idle") => cp_enq = 1]_vars

\* C8 witness: the branch of a failed query has put its one apology on tts_queue.
C8_Witness ==
    /\ pc["cp"] = "clear"
    /\ cp_cmd = Lower(Cmd_Joke)
    /\ cp_enq = 1
    /\ tts_queue = <<OLLAMA_STATUS_FALLBACK>>

\* C9: when the router has finished with a command, conversation_active is False,
\* whichever branch ran.
C9_ConversationCleared ==
    [][(pc["cp"] = "clear" /\ pc'["cp"] = "idle")
         => ~driver_state'.conversation_active]_vars

\* C9 witness: the router has finished with the one command that was waiting, a
\* failed query, and conversation_active, True when it started, is False.
C9_Witness ==
    /\ pc["cp"] = "idle"
    /\ speech_queue = <<>>
    /\ tts_queue = <<OLLAMA_STATUS_FALLBACK>>
    /\ tts_text = NoText
    /\ ~driver_state.conversation_active

---------------------------------------------------------------------------
(* The wake word *)

\* a and b are the same letter in either case.
SameLetter(a, b) ==
    \/ a = b
    \/ \E k \in 1..Len(UpperChars) :
         {a, b} \subseteq {UpperChars[k], LowerChars[k]}

\* The text u holds the wake word as a substring, whatever the case.
WakeMatch(u) ==
    \E i \in 0..(Len(u) - Len(WAKE_WORD)) :
       \A j \in 1..Len(WAKE_WORD) : SameLetter(u[i + j], WAKE_WORD[j])

\* C10: when the listener recognizes a text that holds the wake word (in any
\* case), it sets global_mic_active to False, conversation_active to True and
\* assistant_state to "listening", then puts exactly one text, "How can I help
\* you?", on tts_queue and waits for the answer; a recognized text without the
\* wake word changes none of these.
C10_WakeWord ==
    [][/\ (pc["wwd"] = "listen" /\ heard' = heard + 1)
            => IF WakeMatch(wwd_text')
               THEN /\ ~global_mic_active'
                    /\ driver_state'.conversation_active
                    /\ driver_state'.assistant_state = "listening"
                    /\ tts_queue' = tts_queue
                    /\ pc'["wwd"] = "wake_speak"
               ELSE /\ UNCHANGED <<global_mic_active, driver_state, tts_queue>>
                    /\ pc'["wwd"] = "idle"
       /\ (pc["wwd"] = "wake_speak" /\ pc'["wwd"] # "wake_speak")
            => /\ tts_queue' = Append(tts_queue, WAKE_PROMPT)
               /\ pc'["wwd"] = "await"]_vars

\* C10 witness: "Hey GOGI please" was recognized before any alert; the listener
\* waits for the answer with the gate muted and its prompt alone on tts_queue.
C10_Witness ==
    /\ pc["wwd"] = "await"
    /\ wwd_text = U_HeyGogi
    /\ ~global_mic_active
    /\ driver_state.conversation_active
    /\ tts_queue = <<WAKE_PROMPT>>
    /\ alerts_in = 0

---------------------------------------------------------------------------
(* The order of the router's branches *)

\* The fixed intents in the order of the if/elif chain: whether the command holds
\* the words of the intent, and the reply of the intent.
FixedIntents(command) ==
    << [match |-> /\ Contains(W_play, command)
                  /\ \E w \in {W_calm, W_relaxing, W_music} : Contains(w, command),
        text |-> CALM_ACK],
       [match |-> Contains(W_stop, command) /\ Contains(W_listening, command),
        text |-> STOP_ACK],
       [match |-> Contains(W_weather, command), text |-> WEATHER_REPLY],
       [match |-> Contains(W_distance, command), text |-> DISTANCE_REPLY],
       [match |-> Contains(W_music, command), text |-> MUSIC_REPLY] >>

\* The indices of the fixed intents that the command matches.
Matching(command) ==
    {i \in 1..Len(FixedIntents(command)) : FixedIntents(command)[i].match}

\* C11: the router runs only the first fixed intent that matches, in the order
\* play + calm/relaxing/music, stop + listening, weather, distance, music, and it
\* calls query_ollama exactly when none matches; "play some calm music" gets the
\* music acknowledgment, no query, and conversation_active False at the end.
C11_IntentOrder ==
    [][/\ (pc["cp"] = "route" /\ pc'["cp"] = "clear")
            => LET said == tts_queue'[Len(tts_queue')]
                   hits == Matching(cp_cmd)
               IN /\ Len(tts_queue') = Len(tts_queue) + 1
                  /\ cp_backend' = (hits = {})
                  /\ IF hits = {}
                     THEN said \in OllamaResults
                     ELSE \E i \in hits :
                            /\ \A j \in hits : i <= j
                            /\ said = FixedIntents(cp_cmd)[i].text
                  /\ cp_cmd = Lower(Cmd_Calm) => (said = CALM_ACK /\ ~cp_backend')
       /\ (pc["cp"] = "clear" /\ pc'["cp"] = "idle" /\ cp_cmd = Lower(Cmd_Calm))
            => ~driver_state'.conversation_active]_vars

\* C11 witness: "play some calm music", which holds the words of the calm branch
\* and of the music branch, has been answered with the calm acknowledgment only
\* and without a query.
C11_Witness ==
    /\ pc["cp"] = "clear"
    /\ cp_cmd = Lower(Cmd_Calm)
    /\ Matching(cp_cmd) = {1, 5}
    /\ tts_queue = <<CALM_ACK>>
    /\ ~cp_backend

---------------------------------------------------------------------------
(* The TTS worker and the microphone gate *)

\* C12: only the TTS worker changes global_mic_active from False to True, and
\* only at the end of the playback of its item or in its except clause; no step
\* of the listener, the router, the alert monitor, speak() or an endpoint does.
C12_OnlyTtsUnmutes ==
    [][(~global_mic_active /\ global_mic_active')
         => \/ (pc["tts"] = "playing" /\ pc'["tts"] = "unmuted")
            \/ (pc["tts"] \in {"synth", "playing"} /\ pc'["tts"] = "idle")]_vars

\* C12 witness: the listener has set global_mic_active to False and waits; the
\* worker has played its item to the end and has set it to True.
C12_Witness ==
    /\ pc["wwd"] = "await"
    /\ pc["tts"] = "unmuted"
    /\ global_mic_active

\* C13: in every reachable state in which the TTS worker plays audio,
\* global_mic_active is False, under every interleaving.
C13_PlayingImpliesMuted ==
    pc["tts"] = "playing" => ~global_mic_active

\* C13 witness: audio plays while the listener is inside a listen attempt that
\* it began before the worker set global_mic_active to False.
C13_Witness ==
    /\ TtsPlaying
    /\ pc["wwd"] = "listen"
    /\ ~global_mic_active

\* C14: the TTS worker holds at most one text at a time, takes a text only when it
\* holds none, takes the oldest text of tts_queue and removes exactly that one;
\* every other change of tts_queue appends to it, whoever enqueues.
C14_SerialFifo ==
    [][/\ (tts_text # NoText) <=> (pc["tts"] # "idle")
       /\ tts_queue' # tts_queue
            => \/ /\ pc["tts"] = "idle" /\ pc'["tts"] = "synth"
                  /\ tts_text = NoText
                  /\ tts_queue = <<tts_text'>> \o tts_queue'
               \/ /\ Len(tts_queue') > Len(tts_queue)
                  /\ SubSeq(tts_queue', 1, Len(tts_queue)) = tts_queue
                  /\ UNCHANGED <<tts_text, pc["tts"]>>]_vars

\* C14 witness: the worker plays the start-up text while a text of /alert and a
\* text of the listener wait in the order in which they were enqueued.
C14_Witness ==
    /\ TtsPlaying
    /\ tts_text = STARTUP_TEXT
    /\ tts_queue = <<AlertMessage("DROWSY"), WAKE_PROMPT>>

---------------------------------------------------------------------------
(* The gate is re-opened *)

\* The TTS worker, the listener and /alert, from the start of the program.
GateNext ==
    \/ tts_worker
    \/ wake_word_detector
    \/ receive_alert
    \/ \E t \in {"tts", "wwd", "api"} : BroadcastPost(t)

\* The threads of the worker and of the listener are scheduled again and again,
\* the requests.post of their broadcasts returns, and playback ends or fails.
GateSpec ==
    /\ Init
    /\ [][GateNext]_vars
    /\ WF_vars(tts_worker)
    /\ WF_vars(wake_word_detector)
    /\ WF_vars(BroadcastPost("tts"))
    /\ WF_vars(BroadcastPost("wwd"))

\* C15: whenever global_mic_active is False, set by the listener or by the
\* worker, the worker eventually sets it to True and sets "standby", whether
\* synthesis and playback succeed or fail; a listener that waits for the gate
\* eventually stops waiting.
C15_GateReopens ==
    /\ (~global_mic_active) ~> global_mic_active
    /\ (~global_mic_active) ~> (driver_state.assistant_state = "standby")
    /\ (pc["wwd"] = "await") ~> (pc["wwd"] # "await")

\* C15 witness: the listener set global_mic_active to False and waits; the worker
\* has emptied tts_queue, set global_mic_active to True and set "standby".
C15_Witness ==
    /\ pc["wwd"] = "await"
    /\ pc["tts"] = "idle"
    /\ tts_queue = <<>>
    /\ global_mic_active
    /\ bsnap["tts"] # NoSnap
    /\ bsnap["tts"].state = "standby"

---------------------------------------------------------------------------
(* The cooldown between suggestions *)

\* The alert monitor puts a suggestion on tts_queue in this step.
SuggestionStep ==
    /\ pc["am"] \in {"suggest", "sweep_suggest"}
    /\ pc'["am"] # pc["am"]

\* C16: any two suggestions that the alert monitor puts on tts_queue, from the
\* check of a new alert or from the periodic sweep, are at least
\* suggestion_cooldown seconds apart.
C16_CooldownBetweenSuggestions ==
    [][SuggestionStep
         => (spoken_at = 0 \/ now - spoken_at >= SUGGESTION_COOLDOWN)]_vars

---------------------------------------------------------------------------
(* The alert flags and the STEER alert *)

\* Some alert flag is True before the step and False after it.
FlagCleared ==
    \E f \in {"DROWSY", "DRUNK", "STRESS"} : driver_state[f] /\ ~driver_state'[f]

\* C17: the DROWSY, DRUNK and STRESS flags go from True to False only when /alert
\* receives an alert of that kind with state false; no other step clears a flag,
\* under every interleaving of /alert with set_assistant_state and
\* broadcast_state.
C17_FlagsClearedByAlertOnly ==
    [][FlagCleared => alerts_in' = alerts_in + 1]_vars

\* C18: a STEER alert changes only driver_state["STEER"]: nothing is put on
\* alert_queue or tts_queue, nothing is appended to last_alerts, and the flags,
\* crash_detected, conversation_active, last_suggestion and assistant_state stay
\* as they are.
C18_SteerFrame ==
    [][(alerts_in' = alerts_in + 1 /\ driver_state'.STEER # driver_state.STEER)
         => /\ driver_state' = [driver_state EXCEPT !.STEER = driver_state'.STEER]
            /\ UNCHANGED <<alert_queue, tts_queue, speech_queue, global_mic_active,
                           bsnap, crash_in>>]_vars

\* C18 witness: /alert has received a STEER alert while a DROWSY alert waits on
\* alert_queue with its text on tts_queue.
C18_Witness ==
    /\ driver_state.STEER = "LEFT"
    /\ alerts_in = 2
    /\ driver_state.DROWSY
    /\ alert_queue = <<"DROWSY">>
    /\ tts_queue = <<STARTUP_TEXT, AlertMessage("DROWSY")>>

---------------------------------------------------------------------------
(* The listener and the gate *)

\* The prompt of the listener waits on tts_queue or is held by the TTS worker
\* that has not finished playing it.
PromptPending ==
    \/ \E i \in 1..Len(tts_queue) : tts_queue[i] = WAKE_PROMPT
    \/ (tts_text = WAKE_PROMPT /\ TtsHoldsItem)

\* C19: the listener starts to capture the command only after the TTS worker has
\* finished playing the "How can I help you?" that the listener enqueued, also
\* when other texts were queued or in progress at the wake word.
C19_CaptureAfterPrompt ==
    [][(pc["wwd"] = "await" /\ pc'["wwd"] = "capture") => ~PromptPending]_vars

\* C20: in no reachable state is the listener inside recognizer.listen (for the
\* wake word or for the command) while global_mic_active is False or while the
\* TTS worker plays audio.
C20_ListenOnlyWhileActive ==
    pc["wwd"] \in {"listen", "capture"}
    => (global_mic_active /\ pc["tts"] # "playing")

---------------------------------------------------------------------------
(* The alert monitor: suppression, the sweep and the suggestion *)

\* The alert monitor takes an alert other than "CRASH" from alert_queue in this
\* step.
DequeuesAlert ==
    /\ pc["am"] = "idle"
    /\ alert_queue # <<>>
    /\ Head(alert_queue) # "CRASH"
    /\ alert_queue' = Tail(alert_queue)

\* C21: when the alert monitor takes an alert other than "CRASH" from alert_queue
\* while conversation_active is True, it puts nothing on tts_queue, goes back to
\* the top of its loop without check_alert_threshold or query_ollama, and leaves
\* last_suggestion as it is.
C21_ReactiveSuppression ==
    [][(DequeuesAlert /\ driver_state.conversation_active)
         => /\ tts_queue' = tts_queue
            /\ pc'["am"] = "idle"
            /\ driver_state' = driver_state
            /\ spoken_at' = spoken_at]_vars

\* C21 witness: during a conversation the monitor has dropped a DROWSY alert that
\* is the third of the window, with no cooldown running, and has said nothing.
C21_Witness ==
    /\ driver_state.conversation_active
    /\ Len(driver_state.last_alerts) = 3
    /\ driver_state.last_suggestion = 0
    /\ alert_queue = <<>>
    /\ pc["am"] = "idle"
    /\ tts_queue = <<AlertMessage("DROWSY")>>
    /\ spoken_at = 0

\* The periodic sweep puts its suggestion on tts_queue and stores last_suggestion
\* in this step.
SweepSuggestionStep ==
    /\ pc["am"] = "sweep_suggest"
    /\ pc'["am"] # "sweep_suggest"

\* C22: the periodic sweep never puts a suggestion on tts_queue, and never
\* stores last_suggestion, while conversation_active is True.
C22_SweepSuppression ==
    [][SweepSuggestionStep => ~driver_state.conversation_active]_vars

\* C23: the periodic sweep puts a suggestion on tts_queue only when at least
\* CONSECUTIVE_ALERTS_THRESHOLD entries of last_alerts are younger than
\* ALERT_WINDOW and the cooldown is over.
C23_SweepThreshold ==
    [][SweepSuggestionStep
         => /\ InWindow(driver_state.last_alerts, am_now)
                 >= CONSECUTIVE_ALERTS_THRESHOLD
            /\ am_now - driver_state.last_suggestion
                 >= driver_state.suggestion_cooldown]_vars

\* check_alert_threshold returns in this step.
ThresholdReturns ==
    /\ pc["am"] = "threshold_store"
    /\ pc'["am"] # "threshold_store"

\* The alert monitor puts exactly one suggestion on tts_queue in this step.
OneSuggestion ==
    \E suggestion \in OllamaResults : tts_queue' = Append(tts_queue, suggestion)

\* What holds of the suggestion itself: the step after a True check with a prompt
\* puts one suggestion on tts_queue and stores the current time, and
\* last_suggestion changes only in a step that puts a suggestion on tts_queue.
SuggestionStamped ==
    /\ (pc["am"] = "suggest" /\ pc'["am"] # "suggest")
         => (OneSuggestion /\ driver_state'.last_suggestion = now')
    /\ (driver_state'.last_suggestion # driver_state.last_suggestion)
         => (SuggestionStep /\ OneSuggestion)

\* C24 as stated: whenever the alert monitor has taken an alert other than
\* "CRASH" with conversation_active False and check_alert_threshold returns True,
\* it puts exactly one suggestion on tts_queue and sets last_suggestion to the
\* current time; the monitor changes last_suggestion only together with a
\* suggestion.
C24_ReactiveIntervention ==
    [][/\ (ThresholdReturns /\ am_ret') => pc'["am"] = "suggest"
       /\ SuggestionStamped]_vars

\* C24 amended: the same, when at least one of the DROWSY, DRUNK and STRESS flags
\* is set; when check_alert_threshold returns True and no flag is set, the
\* monitor puts nothing on tts_queue, leaves last_suggestion as it is and goes on
\* to its sleep.
C24_ReactiveInterventionWithFlag ==
    [][/\ (ThresholdReturns /\ am_ret')
            => /\ tts_queue' = tts_queue
               /\ driver_state'.last_suggestion = driver_state.last_suggestion
               /\ pc'["am"] = (IF driver_state.DROWSY \/ driver_state.DRUNK
                                  \/ driver_state.STRESS
                               THEN "suggest" ELSE "sleep")
       /\ SuggestionStamped]_vars

\* C24 witness: with DROWSY set and no conversation the monitor has put its
\* suggestion on tts_queue and stored the current time.
C24_Witness ==
    /\ pc["am"] = "sleep"
    /\ ~driver_state.conversation_active
    /\ driver_state.DROWSY
    /\ spoken_at # 0
    /\ driver_state.last_suggestion = now
    /\ tts_queue # <<>>
    /\ tts_queue[Len(tts_queue)] \in OllamaResults

\* The fields that let the periodic sweep go on: monitoring is on and some
\* condition is true.
SweepCondition ==
    /\ driver_state.continuous_monitoring
    /\ \/ driver_state.DROWSY \/ driver_state.DRUNK \/ driver_state.STRESS
       \/ driver_state.crash_detected \/ driver_state.conversation_active

\* The cooldown is over at the last time read.
CooldownOver ==
    now - driver_state.last_suggestion >= driver_state.suggestion_cooldown

\* C25: while continuous_monitoring is True and one of DROWSY, DRUNK, STRESS,
\* crash_detected and conversation_active stays True, every time the cooldown is
\* over the periodic sweep eventually speaks and stores last_suggestion (so that
\* the cooldown runs again), also when no new alert arrives.
C25_SustainedNudge ==
    (SweepCondition /\ CooldownOver) ~> (~SweepCondition \/ ~CooldownOver)

---------------------------------------------------------------------------
(* The end of a conversation *)

\* The listener, the router and the TTS worker, from the start of the program.
ConversationNext ==
    \/ wake_word_detector
    \/ command_processor
    \/ tts_worker
    \/ \E t \in {"wwd", "cp", "tts"} : BroadcastPost(t)

\* The three threads are scheduled again and again and the requests.post of
\* their broadcasts returns.
ConversationSpec ==
    /\ Init
    /\ [][ConversationNext]_vars
    /\ WF_vars(wake_word_detector)
    /\ WF_vars(command_processor)
    /\ WF_vars(tts_worker)
    /\ \A t \in {"wwd", "cp", "tts"} : WF_vars(BroadcastPost(t))

\* C26: after every wake word that sets conversation_active to True, it is
\* eventually False again, whatever the capture of the command gives: a command,
\* unintelligible speech, an unavailable service or no speech before the timeout.
C26_ConversationEnds ==
    driver_state.conversation_active ~> ~driver_state.conversation_active

---------------------------------------------------------------------------
(* The outcomes of a capture *)

\* The listener leaves the listen for the command (793-806).
CaptureEnds == pc["wwd"] = "capture" /\ pc'["wwd"] # "capture"

\* speech_queue.put(command), command being the lower-cased recognised text
CommandQueued ==
    /\ \E c \in Commands : speech_queue' = Append(speech_queue, Lower(c))
    /\ tts_queue' = tts_queue

\* speak(text) and nothing for the router
MessageSpoken(text) ==
    /\ tts_queue' = Append(tts_queue, text)
    /\ speech_queue' = speech_queue

\* C27 as stated: every capture ends in the idle state with exactly one item
\* put on speech_queue or tts_queue.
C27_CaptureOneEnqueue ==
    [][CaptureEnds =>
        /\ pc'["wwd"] = "idle"
        /\ CommandQueued \/ MessageSpoken(NOT_CAUGHT_TEXT)
                         \/ MessageSpoken(UNAVAILABLE_TEXT)]_vars

\* C27: every capture ends in the idle state with the recognised command put
\* on speech_queue and nothing on tts_queue, or the apology or the "unavailable"
\* message put on tts_queue and nothing on speech_queue, or, when listen raises
\* before anything is recognised, nothing put on either queue.
C27_CaptureAtMostOneEnqueue ==
    [][CaptureEnds =>
        /\ pc'["wwd"] = "idle"
        /\ \/ CommandQueued
           \/ MessageSpoken(NOT_CAUGHT_TEXT)
           \/ MessageSpoken(UNAVAILABLE_TEXT)
           \/ speech_queue' = speech_queue /\ tts_queue' = tts_queue]_vars

\* C27 witness: a capture has ended with the command on speech_queue, the
\* listener is idle again and no message of the listener is on tts_queue.
C27_Witness ==
    /\ pc["wwd"] = "idle"
    /\ driver_state.conversation_active
    /\ speech_queue = <<Lower(Cmd_Joke)>>
    /\ tts_queue = <<>>

---------------------------------------------------------------------------
(* The alert history under interleaving *)

\* C28: no step removes from last_alerts an entry that is younger than
\* ALERT_WINDOW: the number of entries inside the window at the time of the
\* step never drops, however receive_alert and check_alert_threshold interleave.
C28_NoYoungEntryLost ==
    [][InWindow(driver_state'.last_alerts, now')
         >= InWindow(driver_state.last_alerts, now')]_vars

---------------------------------------------------------------------------
(* The "speaking" state and the speech it announces *)

\* C29: whenever tts_queue is empty and the worker is blocked in
\* tts_queue.get(), every item it took being fully handled,
\* assistant_state is not "speaking".
C29_SpeakingOnlyWhilePending ==
    (tts_queue = <<>> /\ pc["tts"] = "idle")
    => driver_state.assistant_state # "speaking"

====
